---- MODULE Spec2Model ----
(***************************************************************************)
(* Model of the window index / activation history core of flash-toggle.   *)
(*                                                                         *)
(* Several state machines share the module:                                *)
(*   HistSpec   - WindowHistoryManager (window_search/window_history.py)   *)
(*   IndexSpec  - WindowIndexManager (window_search/window_index.py) with  *)
(*                its scan thread and the UI thread that reads and edits   *)
(*                the records; the bridge is any object taking the calls   *)
(*                the scan makes                                           *)
(*   WiredSpec  - the same index with the repository's own                 *)
(*                VirtualDesktopManager as bridge (window_instances.py)    *)
(*   LifeSpec   - the scan thread and a caller of stop()                   *)
(*   SearchSpec - search_windows and SearchWindow._do_search over an       *)
(*                index and a keyword list drawn at the start              *)
(* Each specification leaves the other machines' variables untouched.      *)
(***************************************************************************)
EXTENDS Integers, Sequences, FiniteSets, TLC

VARIABLES
    history,        \* WindowHistoryManager._history (deque, oldest first)
    current_index,  \* WindowHistoryManager._current_index (0-based, -1 = none)
    is_jumping,     \* WindowHistoryManager._is_jumping
    target,         \* handle being activated by the jump in progress, 0 = none
    ret,            \* outcome of the last finished history operation
    alive,          \* handles for which win32gui.IsWindow is true
    windows,        \* WindowIndexManager._windows: handle -> WindowInfo
    lockOwner,      \* holder of WindowIndexManager._lock, "none" when free
    osTitle,        \* the desktop: handle -> title of its top-level window
    clock,          \* time.time()
    scanPc,         \* position of the scan thread
    scanEnum,       \* handles EnumWindows reports in the current cycle
    scanTodo,       \* handles whose callback has not run yet in this cycle
    scanCur,        \* handle whose record the callback is updating, 0 = none
    uiPc,           \* position of the thread calling the index
    uiArg,          \* handle argument of the call in progress, 0 = none
    prior,          \* what a reader would have seen when the cycle started
    readSnap,       \* what the last get_all_windows of this cycle returned
    entry,          \* deque and cursor when the jump in progress was called
    running,        \* WindowIndexManager._running
    stopPc,         \* position of the thread calling stop()
    order,          \* handles of _windows in dict (insertion) order
    query,          \* keyword list the user of the index is about to search
    keywords,       \* keyword list of the last search_windows call
    results,        \* list the last search_windows call returned
    shown,          \* rows of SearchWindow._window_list, top first
    osStyle,        \* the desktop: handle -> style bits and class of its window
    scan_interval,  \* WindowIndexManager._scan_interval
    indexConfig,    \* scan_interval held by the index's ConfigManager
    guiConfig,      \* scan_interval held by MainWindow's ConfigManager
    bridgeInit,     \* VirtualDesktopManager._initialized (and _manager set)
    vdCase,         \* what the last is_window_on_current_desktop call met
    vdRet,          \* what that call gave back
    attached,       \* input queues of target and foreground thread attached
    fgPc,           \* position inside _try_set_foreground_window
    fgRet,          \* what the last _try_set_foreground_window gave back
    actRet,         \* what the last activation call gave back
    cycleFailed,    \* the scan cycle last begun ended in _scan_windows' except
    hotkeys,        \* HotkeyManager._hotkeys: hotkey -> callback
    hkLock,         \* HotkeyManager._lock: "free" or "held"
    hkPc,           \* the UI thread inside the hotkey manager: idle or blocked
    hkRet,          \* what the last hotkey manager call gave back
    managed,        \* handles in WindowManager._windows
    is_visible,     \* WindowInfo.is_visible of each managed window
    osShown,        \* the desktop: whether the window of a handle is shown
    toggleRet,      \* what the last toggle_window_visibility gave back
    quitDone        \* _on_quit has run its restore step

histVars == <<history, current_index, is_jumping, target, ret, alive, entry>>

indexVars == <<windows, lockOwner, osTitle, clock, scanPc, scanEnum, scanTodo,
               scanCur, uiPc, uiArg, prior, readSnap>>

lifeVars == <<running, stopPc>>

searchVars == <<order, query, keywords, results, shown>>

styleVars == <<osStyle>>

cfgVars == <<scan_interval, indexConfig, guiConfig, cycleFailed>>

actVars == <<bridgeInit, vdCase, vdRet, attached, fgPc, fgRet, actRet>>

mgrVars == <<hotkeys, hkLock, hkPc, hkRet, managed, is_visible, osShown,
             toggleRet, quitDone>>

vars == <<histVars, indexVars, lifeVars, searchVars, styleVars, cfgVars,
          actVars, mgrVars>>

----------------------------------------------------------------------------
(* Bounds *)

MaxHistory == 4
NumMortal  == 2

MaxClock   == 1

\* window handles: A..E of the truncation example
Handles == {1, 2, 3, 4, 5}
\* handles whose window may be closed during a run
Mortal  == 1..NumMortal

----------------------------------------------------------------------------
(* Python sequence helpers *)

\* s[i] of a Python deque: 0-based, negative indices count from the end
PyIndexOK(s, i) == (-Len(s) <= i) /\ (i < Len(s))

PyGet_First(s, i) == s[1]

PyGet(s, i) == IF i >= 0 THEN s[i + 1] ELSE s[Len(s) + i + 1]

\* position (1-based) of the first occurrence of x in s, 0 when absent
RECURSIVE FirstPos(_, _, _)
FirstPos(s, x, k) ==
    IF k > Len(s) THEN 0
    ELSE IF s[k] = x THEN k
    ELSE FirstPos(s, x, k + 1)

\* a remove that leaves the deque as it was
DequeRemove_Keeps(s, x) == s

\* deque.remove(x): drops the first occurrence of x
DequeRemove_Head(s, x) == Tail(s)

DequeRemove(s, x) ==
    LET p == FirstPos(s, x, 1)
    IN  IF p = 0 THEN s
        ELSE SubSeq(s, 1, p - 1) \o SubSeq(s, p + 1, Len(s))

\* deque(maxlen=MaxHistory).append(x): a full deque drops its oldest entry
DequeAppend_Unbounded(s, x) == Append(s, x)

DequeAppend(s, x) ==
    IF Len(s) >= MaxHistory THEN Tail(s) \o <<x>> ELSE Append(s, x)

\* the while/pop loop of record_window_activation
TruncateAfter_Keep(s, c) == s

TruncateAfter(s, c) ==
    IF c < Len(s) - 1 THEN SubSeq(s, 1, c + 1) ELSE s

----------------------------------------------------------------------------
(* WindowHistoryManager *)

\* no jump in progress
NoEntry == [h |-> <<>>, c |-> -1]

HistoryInit ==
    /\ entry = NoEntry
    /\ history = <<>>
    /\ current_index = -1
    /\ is_jumping = FALSE
    /\ target = 0
    /\ ret = "none"
    /\ alive = Handles

\* record_window_activation(hwnd); hwnd = 0 is the null handle
record_window_activation_Unguarded(hwnd) ==
    /\ UNCHANGED <<is_jumping, target, alive, entry>>
    /\ UNCHANGED <<indexVars, lifeVars, searchVars, styleVars, cfgVars, actVars, mgrVars>>
    /\ IF hwnd = 0 \/ hwnd \notin alive
       THEN /\ ret' = "none"
            /\ UNCHANGED <<history, current_index>>
       ELSE IF history # <<>> /\ ~PyIndexOK(history, current_index)
       THEN \* self._history[self._current_index] raises IndexError
            /\ ret' = "raise"
            /\ UNCHANGED <<history, current_index>>
       ELSE IF history # <<>> /\ PyGet(history, current_index) = hwnd
       THEN /\ ret' = "none"
            /\ UNCHANGED <<history, current_index>>
       ELSE LET kept == TruncateAfter(history, current_index)
                new  == DequeAppend(kept, hwnd)
            IN  /\ history' = new
                /\ current_index' = Len(new) - 1
                /\ ret' = "none"

record_window_activation(hwnd) ==
    /\ UNCHANGED <<is_jumping, target, alive, entry>>
    /\ UNCHANGED <<indexVars, lifeVars, searchVars, styleVars, cfgVars, actVars, mgrVars>>
    /\ IF is_jumping \/ hwnd = 0 \/ hwnd \notin alive
       THEN /\ ret' = "none"
            /\ UNCHANGED <<history, current_index>>
       ELSE IF history # <<>> /\ ~PyIndexOK(history, current_index)
       THEN \* self._history[self._current_index] raises IndexError
            /\ ret' = "raise"
            /\ UNCHANGED <<history, current_index>>
       ELSE IF history # <<>> /\ PyGet(history, current_index) = hwnd
       THEN /\ ret' = "none"
            /\ UNCHANGED <<history, current_index>>
       ELSE LET kept == TruncateAfter(history, current_index)
                new  == DequeAppend(kept, hwnd)
            IN  /\ history' = new
                /\ current_index' = Len(new) - 1
                /\ ret' = "none"

RecordActivation == \E hwnd \in Handles \cup {0} : record_window_activation(hwnd)

\* a walk back that finds its target and leaves the cursor where it was
PrevWalk_StaleCursor(s, c, live) ==
    IF s = <<>> \/ c <= 0 \/ ~PyIndexOK(s, c - 1)
    THEN [h |-> s, c |-> c, t |-> 0, e |-> FALSE]
    ELSE [h |-> s, c |-> c, t |-> PyGet(s, c - 1), e |-> FALSE]

\* the walk of jump_to_previous up to the activation: the deque and cursor it
\* leaves, the live handle it found (t = 0: it returns False), e: IndexError
RECURSIVE PrevWalk(_, _, _)
PrevWalk(s, c, live) ==
    IF s = <<>> \/ c <= 0 THEN [h |-> s, c |-> c, t |-> 0, e |-> FALSE]
    ELSE LET c1 == c - 1 IN
         IF ~PyIndexOK(s, c1) THEN [h |-> s, c |-> c1, t |-> 0, e |-> TRUE]
         ELSE LET hw == PyGet(s, c1) IN
              IF hw \notin live
              THEN LET s2 == DequeRemove(s, hw)
                       c2 == IF c1 >= Len(s2) THEN Len(s2) - 1 ELSE c1
                   IN  IF s2 # <<>> THEN PrevWalk(s2, c2, live)
                       ELSE [h |-> s2, c |-> c2, t |-> 0, e |-> FALSE]
              ELSE [h |-> s, c |-> c1, t |-> hw, e |-> FALSE]

\* the walk of jump_to_next up to the activation
NextWalk_Wraps(s, c, live) ==
    IF s = <<>> THEN [h |-> s, c |-> c, t |-> 0, e |-> FALSE]
    ELSE [h |-> s, c |-> 0, t |-> s[1], e |-> FALSE]

RECURSIVE NextWalk(_, _, _)
NextWalk(s, c, live) ==
    IF s = <<>> \/ c >= Len(s) - 1 THEN [h |-> s, c |-> c, t |-> 0, e |-> FALSE]
    ELSE LET c1 == c + 1 IN
         IF ~PyIndexOK(s, c1) THEN [h |-> s, c |-> c1, t |-> 0, e |-> TRUE]
         ELSE LET hw == PyGet(s, c1) IN
              IF hw \notin live
              THEN LET s2 == DequeRemove(s, hw)
                   IN  IF s2 # <<>> THEN NextWalk(s2, c1, live)
                       ELSE [h |-> s2, c |-> c1, t |-> 0, e |-> FALSE]
              ELSE [h |-> s, c |-> c1, t |-> hw, e |-> FALSE]

\* a jump up to the point where _jump_to_window sets _is_jumping
JumpStart(w) ==
    /\ history' = w.h
    /\ current_index' = w.c
    /\ UNCHANGED alive
    /\ UNCHANGED <<indexVars, lifeVars, searchVars, styleVars, cfgVars, actVars, mgrVars>>
    /\ IF w.t = 0
       THEN /\ ret' = IF w.e THEN "raise" ELSE "false"
            /\ UNCHANGED <<is_jumping, target, entry>>
       ELSE /\ is_jumping' = TRUE
            /\ target' = w.t
            /\ entry' = [h |-> history, c |-> current_index]
            /\ ret' = "none"

jump_to_previous ==
    /\ ~is_jumping
    /\ JumpStart(PrevWalk(history, current_index, alive))

jump_to_next ==
    /\ ~is_jumping
    /\ JumpStart(NextWalk(history, current_index, alive))

\* _jump_to_window: the activation ends (True, or False when IsWindow fails or
\* an OS call raised); the finally clause clears _is_jumping
JumpFinish ==
    /\ is_jumping
    /\ \E ok \in BOOLEAN : ret' = IF ok THEN "true" ELSE "false"
    /\ is_jumping' = FALSE
    /\ target' = 0
    /\ entry' = NoEntry
    /\ UNCHANGED <<history, current_index, alive>>
    /\ UNCHANGED <<indexVars, lifeVars, searchVars, styleVars, cfgVars, actVars, mgrVars>>

clear_history ==
    /\ ~is_jumping
    /\ history' = <<>>
    /\ current_index' = -1
    /\ ret' = "none"
    /\ UNCHANGED <<is_jumping, target, alive, entry>>
    /\ UNCHANGED <<indexVars, lifeVars, searchVars, styleVars, cfgVars, actVars, mgrVars>>

\* the window of handle h is closed
WindowDies ==
    \E h \in Mortal :
        /\ h \in alive
        /\ alive' = alive \ {h}
        /\ UNCHANGED <<history, current_index, is_jumping, target, ret,
                       entry>>
        /\ UNCHANGED <<indexVars, lifeVars, searchVars, styleVars, cfgVars, actVars, mgrVars>>

HistNext ==
    \/ RecordActivation
    \/ jump_to_previous
    \/ jump_to_next
    \/ JumpFinish
    \/ clear_history
    \/ WindowDies

----------------------------------------------------------------------------
(* WindowIndexManager: data *)

\* the top-level windows of the desktop the scan may meet
IdxHandles == {1, 2}

\* window titles; "" is a window without title text
Titles   == {"a", "b"}
OsTitles == Titles \cup {""}

\* tag texts a user may type; "" is the default of WindowInfo.tags
TagValues == {"", "t"}

\* the empty dict
EmptyMap == [h \in {} |-> 0]

\* d[k] = v of a Python dict
DictSet(d, k, v) ==
    [x \in (DOMAIN d) \cup {k} |-> IF x = k THEN v ELSE d[x]]

\* del d[k]
DictDel(d, k) == [x \in (DOMAIN d) \ {k} |-> d[x]]

\* WindowInfo(hwnd, title, ..., last_active): tags takes its default ""
WindowInfo(title, now) ==
    [title |-> title, last_active |-> now, tags |-> ""]

\* the handles and scan-derived fields a reader of the index sees
View(w) == [h \in DOMAIN w |-> w[h].title]

NoSnap == [taken |-> FALSE, view |-> EmptyMap]

IndexStateInit ==
    /\ windows = EmptyMap
    /\ lockOwner = "none"
    /\ osTitle = EmptyMap
    /\ clock = 0
    /\ scanPc = "sleep"
    /\ scanEnum = {}
    /\ scanTodo = {}
    /\ scanCur = 0
    /\ uiPc = "idle"
    /\ uiArg = 0
    /\ prior = EmptyMap
    /\ readSnap = NoSnap
    /\ running = TRUE
    /\ stopPc = "none"
    /\ order = <<>>

\* style of an ordinary application window
NormalStyle == [visible |-> TRUE, class |-> "app", popup |-> FALSE]

\* scan_interval of AppConfig's defaults, in seconds
DefaultInterval == 2

\* an unchanged configuration, ordinary windows, a working bridge and no
\* activation made yet
\* the windows a user may capture into the window manager
MgrHandles == {1, 2}

RestInit ==
    /\ osStyle = [h \in IdxHandles |-> NormalStyle]
    /\ scan_interval = DefaultInterval
    /\ indexConfig = DefaultInterval
    /\ guiConfig = DefaultInterval
    /\ cycleFailed = FALSE
    /\ bridgeInit = TRUE
    /\ vdCase = "none"
    /\ vdRet = "none"
    /\ attached = FALSE
    /\ fgPc = "idle"
    /\ fgRet = "none"
    /\ actRet = "none"
    /\ hotkeys = EmptyMap
    /\ hkLock = "free"
    /\ hkPc = "idle"
    /\ hkRet = "none"
    /\ managed = {}
    /\ is_visible = EmptyMap
    /\ osShown = [h \in MgrHandles |-> TRUE]
    /\ toggleRet = "none"
    /\ quitDone = FALSE

\* no search was made yet
SearchStateInit ==
    /\ query = <<>>
    /\ keywords = <<>>
    /\ results = <<>>
    /\ shown = <<>>

Init == HistoryInit /\ IndexStateInit /\ SearchStateInit /\ RestInit

HistSpec == Init /\ [][HistNext]_vars

----------------------------------------------------------------------------
(* The desktop *)

WindowOpens ==
    \E h \in IdxHandles, t \in OsTitles :
        /\ h \notin DOMAIN osTitle
        /\ osTitle' = DictSet(osTitle, h, t)
        /\ UNCHANGED <<windows, lockOwner, clock, scanPc, scanEnum, scanTodo,
                       scanCur, uiPc, uiArg, prior, readSnap>>
        /\ UNCHANGED <<histVars, lifeVars, searchVars, styleVars, cfgVars, actVars, mgrVars>>

WindowCloses ==
    \E h \in DOMAIN osTitle :
        /\ osTitle' = DictDel(osTitle, h)
        /\ UNCHANGED <<windows, lockOwner, clock, scanPc, scanEnum, scanTodo,
                       scanCur, uiPc, uiArg, prior, readSnap>>
        /\ UNCHANGED <<histVars, lifeVars, searchVars, styleVars, cfgVars, actVars, mgrVars>>

TitleChanges ==
    \E h \in DOMAIN osTitle, t \in OsTitles :
        /\ osTitle[h] # t
        /\ osTitle' = DictSet(osTitle, h, t)
        /\ UNCHANGED <<windows, lockOwner, clock, scanPc, scanEnum, scanTodo,
                       scanCur, uiPc, uiArg, prior, readSnap>>
        /\ UNCHANGED <<histVars, lifeVars, searchVars, styleVars, cfgVars, actVars, mgrVars>>

Tick ==
    /\ clock < MaxClock
    /\ clock' = clock + 1
    /\ UNCHANGED <<windows, lockOwner, osTitle, scanPc, scanEnum, scanTodo,
                   scanCur, uiPc, uiArg, prior, readSnap>>
    /\ UNCHANGED <<histVars, lifeVars, searchVars, styleVars, cfgVars, actVars, mgrVars>>

----------------------------------------------------------------------------
(* WindowIndexManager: the scan thread *)

\* the fields the callback refreshes before last_active (lines 186-191)
RefreshScanFields_AndTags(rec, title) == [rec EXCEPT !.title = title, !.tags = ""]

RefreshScanFields(rec, title) == [rec EXCEPT !.title = title]

\* line 226: self._scan_interval = <the index's ConfigManager>.scan_interval
ReloadInterval(current, stored) == stored

\* _scan_loop finds _running set, re-reads scan_interval from its
\* ConfigManager, and _scan_windows calls EnumWindows
ScanStart ==
    /\ scanPc = "sleep"
    /\ running
    /\ scan_interval' = ReloadInterval(scan_interval, indexConfig)
    /\ scanPc' = "enum"
    /\ scanEnum' = DOMAIN osTitle
    /\ scanTodo' = DOMAIN osTitle
    /\ prior' = View(windows)
    /\ readSnap' = NoSnap
    /\ UNCHANGED <<windows, lockOwner, osTitle, clock, scanCur, uiPc, uiArg>>
    /\ cycleFailed' = FALSE
    /\ UNCHANGED <<indexConfig, guiConfig>>
    /\ UNCHANGED <<histVars, lifeVars, searchVars, styleVars, actVars, mgrVars>>

\* what the two bridge calls of the callback, _ensure_initialized(silent=True)
\* and get_window_desktop_id(hwnd, silent=True), can do with a bridge object
\* that takes them: a desktop id, no id (False / None), or an exception
BridgeOutcomes == {"id", "none", "raise"}

\* the same calls on the repository's VirtualDesktopManager, whose
\* _ensure_initialized(self) takes no keyword silent: TypeError
RepoBridgeOutcomes == {"raise"}

\* enum_windows_callback(hwnd, _) up to the write of last_active, the bridge
\* calls ending as given by bridge
\* ... with an unresolved handle dropped from the index
CallbackBody_DropsUnresolved(hwnd, bridge) ==
    /\ scanPc = "enum"
    /\ hwnd \in scanTodo
    /\ scanTodo' = scanTodo \ {hwnd}
    /\ UNCHANGED <<lockOwner, osTitle, clock, scanEnum, uiPc, uiArg, prior,
                   readSnap>>
    /\ UNCHANGED <<histVars, lifeVars, query, keywords, results, shown>>
    /\ UNCHANGED <<styleVars, cfgVars, actVars, mgrVars>>
    /\ IF \/ hwnd \notin DOMAIN osTitle   \* closed meanwhile: the call raises
          \/ ~osStyle[hwnd].visible       \* WS_VISIBLE not set
          \/ osTitle[hwnd] = ""           \* no title
          \/ bridge # "id"                \* no desktop id: except / return True
       THEN /\ windows' = DictDel(windows, hwnd)
            /\ UNCHANGED <<order, scanPc, scanCur>>
       ELSE IF hwnd \in DOMAIN windows
       THEN /\ windows' = DictSet(windows, hwnd,
                             RefreshScanFields(windows[hwnd], osTitle[hwnd]))
            /\ scanPc' = "last_active"
            /\ scanCur' = hwnd
            /\ UNCHANGED order
       ELSE /\ windows' = DictSet(windows, hwnd,
                             WindowInfo(osTitle[hwnd], clock))
            /\ order' = Append(order, hwnd)
            /\ UNCHANGED <<scanPc, scanCur>>

\* ... with an exception ending the enumeration
CallbackBody_AbortsOnRaise(hwnd, bridge) ==
    /\ scanPc = "enum"
    /\ hwnd \in scanTodo
    /\ scanTodo' = IF bridge = "raise" THEN {} ELSE scanTodo \ {hwnd}
    /\ UNCHANGED <<lockOwner, osTitle, clock, scanEnum, uiPc, uiArg, prior,
                   readSnap>>
    /\ UNCHANGED <<histVars, lifeVars, query, keywords, results, shown>>
    /\ UNCHANGED <<styleVars, cfgVars, actVars, mgrVars>>
    /\ IF \/ hwnd \notin DOMAIN osTitle   \* closed meanwhile: the call raises
          \/ ~osStyle[hwnd].visible       \* WS_VISIBLE not set
          \/ osTitle[hwnd] = ""           \* no title
          \/ bridge # "id"                \* no desktop id: except / return True
       THEN UNCHANGED <<windows, order, scanPc, scanCur>>
       ELSE IF hwnd \in DOMAIN windows
       THEN /\ windows' = DictSet(windows, hwnd,
                             RefreshScanFields(windows[hwnd], osTitle[hwnd]))
            /\ scanPc' = "last_active"
            /\ scanCur' = hwnd
            /\ UNCHANGED order
       ELSE /\ windows' = DictSet(windows, hwnd,
                             WindowInfo(osTitle[hwnd], clock))
            /\ order' = Append(order, hwnd)
            /\ UNCHANGED <<scanPc, scanCur>>

CallbackBody(hwnd, bridge) ==
    /\ scanPc = "enum"
    /\ hwnd \in scanTodo
    /\ scanTodo' = scanTodo \ {hwnd}
    /\ UNCHANGED <<lockOwner, osTitle, clock, scanEnum, uiPc, uiArg, prior,
                   readSnap>>
    /\ UNCHANGED <<histVars, lifeVars, query, keywords, results, shown>>
    /\ UNCHANGED <<styleVars, cfgVars, actVars, mgrVars>>
    /\ IF \/ hwnd \notin DOMAIN osTitle   \* closed meanwhile: the call raises
          \/ ~osStyle[hwnd].visible       \* WS_VISIBLE not set
          \/ osTitle[hwnd] = ""           \* no title
          \/ bridge # "id"                \* no desktop id: except / return True
       THEN UNCHANGED <<windows, order, scanPc, scanCur>>
       ELSE IF hwnd \in DOMAIN windows
       THEN /\ windows' = DictSet(windows, hwnd,
                             RefreshScanFields(windows[hwnd], osTitle[hwnd]))
            /\ scanPc' = "last_active"
            /\ scanCur' = hwnd
            /\ UNCHANGED order
       ELSE /\ windows' = DictSet(windows, hwnd,
                             WindowInfo(osTitle[hwnd], clock))
            /\ order' = Append(order, hwnd)
            /\ UNCHANGED <<scanPc, scanCur>>

\* the callback of an index that was given any bridge object
enum_windows_callback(hwnd) ==
    \E bridge \in BridgeOutcomes : CallbackBody(hwnd, bridge)

ScanCallback == \E hwnd \in IdxHandles : enum_windows_callback(hwnd)

\* existing_window.last_active = time.time()
ScanWriteLastActive ==
    /\ scanPc = "last_active"
    /\ windows' = [windows EXCEPT ![scanCur].last_active = clock]
    /\ scanPc' = "enum"
    /\ scanCur' = 0
    /\ UNCHANGED <<lockOwner, osTitle, clock, scanEnum, scanTodo, uiPc, uiArg,
                   prior, readSnap>>
    /\ UNCHANGED <<histVars, lifeVars, searchVars, styleVars, cfgVars, actVars, mgrVars>>

\* EnumWindows returns, _scan_windows returns, _scan_loop sleeps
ScanEnd ==
    /\ scanPc = "enum"
    /\ scanTodo = {}
    /\ scanPc' = "sleep"
    /\ scanEnum' = {}
    /\ prior' = EmptyMap
    /\ readSnap' = NoSnap
    /\ UNCHANGED <<windows, lockOwner, osTitle, clock, scanTodo, scanCur, uiPc,
                   uiArg>>
    /\ UNCHANGED <<histVars, lifeVars, searchVars, styleVars, cfgVars, actVars, mgrVars>>

----------------------------------------------------------------------------
(* WindowIndexManager: calls from the UI thread *)

\* get_all_windows: with self._lock: return list(self._windows.values())
get_all_windows ==
    /\ uiPc = "idle"
    /\ lockOwner = "none"
    /\ readSnap' = IF scanPc = "sleep" THEN NoSnap
                   ELSE [taken |-> TRUE, view |-> View(windows)]
    /\ UNCHANGED <<windows, lockOwner, osTitle, clock, scanPc, scanEnum,
                   scanTodo, scanCur, uiPc, uiArg, prior>>
    /\ UNCHANGED <<histVars, lifeVars, searchVars, styleVars, cfgVars, actVars, mgrVars>>

\* update_window_activity(hwnd): with self._lock
UpdateActivityLock ==
    \E hwnd \in IdxHandles :
        /\ uiPc = "idle"
        /\ lockOwner = "none"
        /\ lockOwner' = "ui"
        /\ uiPc' = "activity"
        /\ uiArg' = hwnd
        /\ UNCHANGED <<windows, osTitle, clock, scanPc, scanEnum, scanTodo,
                       scanCur, prior, readSnap>>
        /\ UNCHANGED <<histVars, lifeVars, searchVars, styleVars, cfgVars, actVars, mgrVars>>

\* update_window_activity(hwnd): the body, then the lock is released
UpdateActivityWrite ==
    /\ uiPc = "activity"
    /\ windows' = IF uiArg \in DOMAIN windows
                  THEN [windows EXCEPT ![uiArg].last_active = clock]
                  ELSE windows
    /\ lockOwner' = "none"
    /\ uiPc' = "idle"
    /\ uiArg' = 0
    /\ UNCHANGED <<osTitle, clock, scanPc, scanEnum, scanTodo, scanCur, prior,
                   readSnap>>
    /\ UNCHANGED <<histVars, lifeVars, searchVars, styleVars, cfgVars, actVars, mgrVars>>

\* SearchWindow._open_tag_input_dialog on the record of a listed window: the
\* modal QInputDialog is shown
OpenTagDialog ==
    \E hwnd \in DOMAIN windows :
        /\ uiPc = "idle"
        /\ uiPc' = "dialog"
        /\ uiArg' = hwnd
        /\ UNCHANGED <<windows, lockOwner, osTitle, clock, scanPc, scanEnum,
                       scanTodo, scanCur, prior, readSnap>>
        /\ UNCHANGED <<histVars, lifeVars, searchVars, styleVars, cfgVars, actVars, mgrVars>>

\* ... the dialog is cancelled: ok is False
CancelTagDialog ==
    /\ uiPc = "dialog"
    /\ uiPc' = "idle"
    /\ uiArg' = 0
    /\ UNCHANGED <<windows, lockOwner, osTitle, clock, scanPc, scanEnum,
                   scanTodo, scanCur, prior, readSnap>>
    /\ UNCHANGED <<histVars, lifeVars, searchVars, styleVars, cfgVars, actVars, mgrVars>>

\* ... the dialog is confirmed with text: if ok and text: window.tags = text
_open_tag_input_dialog(hwnd, text) ==
    /\ uiPc = "dialog"
    /\ uiArg = hwnd
    /\ windows' = IF text # ""
                  THEN [windows EXCEPT ![hwnd].tags = text]
                  ELSE windows
    /\ uiPc' = "idle"
    /\ uiArg' = 0
    /\ UNCHANGED <<lockOwner, osTitle, clock, scanPc, scanEnum, scanTodo,
                   scanCur, prior, readSnap>>
    /\ UNCHANGED <<histVars, lifeVars, searchVars, styleVars, cfgVars, actVars, mgrVars>>

EditTags ==
    \E hwnd \in DOMAIN windows, text \in TagValues :
        _open_tag_input_dialog(hwnd, text)

IndexNext ==
    \/ WindowOpens
    \/ WindowCloses
    \/ TitleChanges
    \/ Tick
    \/ ScanStart
    \/ ScanCallback
    \/ ScanWriteLastActive
    \/ ScanEnd
    \/ get_all_windows
    \/ UpdateActivityLock
    \/ UpdateActivityWrite
    \/ OpenTagDialog
    \/ CancelTagDialog
    \/ EditTags

IndexSpec == Init /\ [][IndexNext]_vars

----------------------------------------------------------------------------
(* The index built as window_instances.py builds it: the bridge is the      *)
(* repository's VirtualDesktopManager                                       *)

WiredScanCallback ==
    \E hwnd \in IdxHandles, bridge \in RepoBridgeOutcomes :
        CallbackBody(hwnd, bridge)

\* no record is ever made, so the steps that need one are left out
WiredNext ==
    \/ WindowOpens
    \/ WindowCloses
    \/ TitleChanges
    \/ Tick
    \/ ScanStart
    \/ WiredScanCallback
    \/ ScanEnd
    \/ get_all_windows
    \/ UpdateActivityLock
    \/ UpdateActivityWrite

WiredSpec == Init /\ [][WiredNext]_vars

----------------------------------------------------------------------------
(* The validity filter and windows that are not ordinary *)

\* a title of white space only
BlankTitle == " "

\* str.strip() on the titles of the model
Strip(title) == IF title = BlankTitle THEN "" ELSE title

\* the classes _is_valid_window excludes
ExcludedClasses ==
    {"Windows.UI.Core.CoreWindow", "ApplicationFrameWindow",
     "Windows.UI.Composition.DesktopWindowContentBridge",
     "Shell_TrayWnd", "Progman", "WorkerW"}

\* an ordinary window, a hidden one, the task bar, a popup
Styles ==
    {NormalStyle,
     [visible |-> FALSE, class |-> "app", popup |-> FALSE],
     [visible |-> TRUE, class |-> "Shell_TrayWnd", popup |-> FALSE],
     [visible |-> TRUE, class |-> "app", popup |-> TRUE]}

\* _is_valid_window(hwnd) for an open window; the scan does not call it
_is_valid_window(hwnd) ==
    /\ osStyle[hwnd].visible
    /\ Strip(osTitle[hwnd]) # ""
    /\ osStyle[hwnd].class # ""
    /\ osStyle[hwnd].class \notin ExcludedClasses
    /\ ~osStyle[hwnd].popup

\* a window of any style and title appears
StyledWindowOpens ==
    \E h \in IdxHandles, t \in {"a", "", BlankTitle}, st \in Styles :
        /\ h \notin DOMAIN osTitle
        /\ osTitle' = DictSet(osTitle, h, t)
        /\ osStyle' = [osStyle EXCEPT ![h] = st]
        /\ UNCHANGED <<windows, lockOwner, clock, scanPc, scanEnum, scanTodo,
                       scanCur, uiPc, uiArg, prior, readSnap>>
        /\ UNCHANGED <<histVars, lifeVars, searchVars, cfgVars, actVars, mgrVars>>

\* such a window is closed
StyledWindowCloses ==
    \E h \in DOMAIN osTitle :
        /\ osTitle' = DictDel(osTitle, h)
        /\ osStyle' = [osStyle EXCEPT ![h] = NormalStyle]
        /\ UNCHANGED <<windows, lockOwner, clock, scanPc, scanEnum, scanTodo,
                       scanCur, uiPc, uiArg, prior, readSnap>>
        /\ UNCHANGED <<histVars, lifeVars, searchVars, cfgVars, actVars, mgrVars>>

\* the desktop with windows of every style, and the scan thread
FilterNext ==
    \/ StyledWindowOpens
    \/ StyledWindowCloses
    \/ ScanStart
    \/ ScanCallback
    \/ ScanWriteLastActive
    \/ ScanEnd

FilterSpec == Init /\ [][FilterNext]_vars

----------------------------------------------------------------------------
(* WindowIndexManager.stop and the end of the scan thread *)

\* _scan_loop: time.sleep returned and while self._running is false
ScanExit ==
    /\ scanPc = "sleep"
    /\ ~running
    /\ scanPc' = "exited"
    /\ UNCHANGED <<windows, lockOwner, osTitle, clock, scanEnum, scanTodo,
                   scanCur, uiPc, uiArg, prior, readSnap>>
    /\ UNCHANGED <<histVars, running, stopPc, searchVars>>
    /\ UNCHANGED <<styleVars, cfgVars, actVars, mgrVars>>

\* stop(): self._running = False
StopCall ==
    /\ stopPc = "none"
    /\ running' = FALSE
    /\ stopPc' = "joining"
    /\ UNCHANGED <<indexVars, histVars, searchVars>>
    /\ UNCHANGED <<styleVars, cfgVars, actVars, mgrVars>>

\* stop() returning without the join
StopReturn_NoJoin ==
    /\ stopPc = "joining"
    /\ stopPc' = "returned"
    /\ UNCHANGED <<indexVars, histVars, running, searchVars>>
    /\ UNCHANGED <<styleVars, cfgVars, actVars, mgrVars>>

\* stop(): is_alive() is false or join() returns, then stop returns
StopReturn ==
    /\ stopPc = "joining"
    /\ scanPc = "exited"
    /\ stopPc' = "returned"
    /\ UNCHANGED <<indexVars, histVars, running, searchVars>>
    /\ UNCHANGED <<styleVars, cfgVars, actVars, mgrVars>>

\* the desktop, the scan thread and a caller of stop()
LifeNext ==
    \/ WindowOpens
    \/ WindowCloses
    \/ TitleChanges
    \/ Tick
    \/ ScanStart
    \/ ScanCallback
    \/ ScanWriteLastActive
    \/ ScanEnd
    \/ ScanExit
    \/ StopCall
    \/ StopReturn

LifeSpec == Init /\ [][LifeNext]_vars

----------------------------------------------------------------------------
(* The scan loop: configuration changes and failing cycles *)

\* values of the scan interval spin box (range 1..10 seconds)
Intervals == {1, 2, 3}

\* MainWindow._on_search_config_changed(config): MainWindow's own
\* ConfigManager is updated and saved, then _scan_interval is assigned
_on_search_config_changed ==
    \E v \in Intervals :
        /\ v # guiConfig
        /\ guiConfig' = v
        /\ scan_interval' = v
        /\ UNCHANGED <<indexConfig, cycleFailed>>
        /\ UNCHANGED <<histVars, indexVars, lifeVars, searchVars, styleVars,
                       actVars, mgrVars>>

\* a failing cycle that takes the scan thread down
ScanAborts_Dies ==
    /\ scanPc = "enum"
    /\ scanPc' = "exited"
    /\ cycleFailed' = TRUE
    /\ UNCHANGED <<windows, lockOwner, osTitle, clock, scanEnum, scanTodo,
                   scanCur, uiPc, uiArg, prior, readSnap>>
    /\ UNCHANGED <<scan_interval, indexConfig, guiConfig>>
    /\ UNCHANGED <<histVars, lifeVars, searchVars, styleVars, actVars, mgrVars>>

\* EnumWindows raises: _scan_windows logs it (lines 219-220), returns, and
\* _scan_loop sleeps
ScanAborts ==
    /\ scanPc = "enum"
    /\ scanPc' = "sleep"
    /\ scanEnum' = {}
    /\ scanTodo' = {}
    /\ prior' = EmptyMap
    /\ readSnap' = NoSnap
    /\ cycleFailed' = TRUE
    /\ UNCHANGED <<windows, lockOwner, osTitle, clock, scanCur, uiPc, uiArg>>
    /\ UNCHANGED <<scan_interval, indexConfig, guiConfig>>
    /\ UNCHANGED <<histVars, lifeVars, searchVars, styleVars, actVars, mgrVars>>

\* the desktop, the scan thread with cycles that may fail, the configuration
\* page and a caller of stop()
LoopNext ==
    \/ WindowOpens
    \/ WindowCloses
    \/ ScanStart
    \/ ScanCallback
    \/ ScanWriteLastActive
    \/ ScanEnd
    \/ ScanAborts
    \/ ScanExit
    \/ _on_search_config_changed
    \/ StopCall
    \/ StopReturn

LoopSpec == Init /\ [][LoopNext]_vars

\* time.sleep returns: a sleeping loop that finds _running set starts a cycle
LoopFairSpec == LoopSpec /\ WF_vars(ScanStart)

----------------------------------------------------------------------------
(* WindowIndexManager.search_windows and SearchWindow._do_search *)

\* longest keyword list of a query
MaxKeywords == 2

\* text is a sequence of characters; Hanzi is a Chinese character (read "ba")
Hanzi == "<ba>"

\* str.lower() of one character
Lower(ch) ==
    IF ch = "A" THEN "a"
    ELSE IF ch = "B" THEN "b"
    ELSE IF ch = "C" THEN "c"
    ELSE ch

\* str.lower()
LowerText(t) == [i \in 1..Len(t) |-> Lower(t[i])]

\* pinyin.get(t, format="strip"): a Chinese character becomes its toneless
\* reading, any other character stays
RECURSIVE PinyinGet(_)
PinyinGet(t) ==
    IF t = <<>> THEN <<>>
    ELSE (IF Head(t) = Hanzi THEN <<"b", "a">> ELSE <<Head(t)>>)
         \o PinyinGet(Tail(t))

\* k in t of two Python strings
Contains(k, t) ==
    \E i \in 0..(Len(t) - Len(k)) : SubSeq(t, i + 1, i + Len(k)) = k

\* the condition of line 256 for one keyword (already lowercased)
Matches_TitleOnly(rec, keyword) ==
    Contains(LowerText(keyword), LowerText(rec.title))

\* ... without the two phonetic texts
Matches_NoPinyin(rec, keyword) ==
    \/ Contains(LowerText(keyword), LowerText(rec.title))
    \/ Contains(LowerText(keyword), LowerText(rec.tags))

Matches(rec, keyword) ==
    LET title == LowerText(rec.title)
        tags  == LowerText(rec.tags)
        pinyin_title == LowerText(PinyinGet(title))
        pinyin_tags  == LowerText(PinyinGet(tags))
        kw == LowerText(keyword)
    IN  \/ Contains(kw, title)
        \/ Contains(kw, tags)
        \/ Contains(kw, pinyin_title)
        \/ Contains(kw, pinyin_tags)

\* match_count that stops at the first matching keyword
MatchCount_Capped(rec, kws) ==
    IF \E i \in 1..Len(kws) : Matches(rec, kws[i]) THEN 1 ELSE 0

\* the inner loop of search_windows: match_count of one record
RECURSIVE MatchCount(_, _)
MatchCount(rec, kws) ==
    IF kws = <<>> THEN 0
    ELSE (IF Matches(rec, Head(kws)) THEN 1 ELSE 0) + MatchCount(rec, Tail(kws))

\* the outer loop of search_windows over get_all_windows(), the handles in
\* dict order
RECURSIVE SearchLoop(_, _, _)
SearchLoop(w, hs, kws) ==
    IF hs = <<>> THEN <<>>
    ELSE LET lowered == [i \in 1..Len(kws) |-> LowerText(kws[i])]
             n == MatchCount(w[Head(hs)], lowered)
         IN  (IF n > 0 THEN <<[hwnd |-> Head(hs), match_count |-> n]>>
              ELSE <<>>)
             \o SearchLoop(w, Tail(hs), kws)

\* titles and tag texts of the records searched
SearchTitles == {<<"A", "b">>, <<Hanzi>>}
SearchTags   == {<<>>, <<"c">>, <<Hanzi>>}

\* keywords of a query; <<>> is the empty string
Keywords == {<<>>, <<"a">>, <<"C">>, <<"B", "a">>}

KeywordLists == UNION {[1..n -> Keywords] : n \in 0..MaxKeywords}

\* activity times of the records searched: an earlier and a later one
SearchTimes == {0, 1}

\* the records an index may hold
SearchRecords ==
    [title : SearchTitles, last_active : SearchTimes, tags : SearchTags]

SearchIndexes == UNION {[hs -> SearchRecords] : hs \in SUBSET IdxHandles}

\* the orders in which the records of w may have been inserted
DictOrders(w) ==
    {o \in UNION {[1..n -> DOMAIN w] : n \in {Cardinality(DOMAIN w)}} :
        \A i, j \in 1..Len(o) : i # j => o[i] # o[j]}

\* an index holding records, and the keyword list of the search to come
SearchInit ==
    /\ HistoryInit
    /\ RestInit
    /\ windows \in SearchIndexes
    /\ order \in DictOrders(windows)
    /\ query \in KeywordLists
    /\ keywords = <<>>
    /\ results = <<>>
    /\ shown = <<>>
    /\ lockOwner = "none"
    /\ osTitle = EmptyMap
    /\ clock = MaxClock
    /\ scanPc = "sleep"
    /\ scanEnum = {}
    /\ scanTodo = {}
    /\ scanCur = 0
    /\ uiPc = "idle"
    /\ uiArg = 0
    /\ prior = EmptyMap
    /\ readSnap = NoSnap
    /\ running = TRUE
    /\ stopPc = "none"

\* search_windows(query)
search_windows ==
    /\ lockOwner = "none"
    /\ keywords' = query
    /\ results' = SearchLoop(windows, order, query)
    /\ UNCHANGED <<order, query, shown>>
    /\ UNCHANGED <<histVars, indexVars, lifeVars, styleVars, cfgVars, actVars, mgrVars>>

\* _do_search: the keywords are query.split(), so none is empty; an empty
\* query clears the list, any other fills it with the results in the order
\* search_windows returned them
_do_search ==
    /\ lockOwner = "none"
    /\ \A i \in 1..Len(query) : query[i] # <<>>
    /\ IF query = <<>>
       THEN /\ shown' = <<>>
            /\ UNCHANGED <<keywords, results>>
       ELSE LET res == SearchLoop(windows, order, query)
            IN  /\ keywords' = query
                /\ results' = res
                /\ shown' = [i \in 1..Len(res) |-> res[i].hwnd]
    /\ UNCHANGED <<order, query>>
    /\ UNCHANGED <<histVars, indexVars, lifeVars, styleVars, cfgVars, actVars, mgrVars>>

SearchNext ==
    \/ search_windows
    \/ _do_search

SearchSpec == SearchInit /\ [][SearchNext]_vars

----------------------------------------------------------------------------
(* Activation history: properties *)

\* the entries up to and including the cursor
Prefix(s, c) == SubSeq(s, 1, c + 1)

\* the last n entries of s
LastN(s, n) == IF Len(s) <= n THEN s ELSE SubSeq(s, Len(s) - n + 1, Len(s))

\* s without its entry at position p (1-based)
RemoveAt(s, p) == SubSeq(s, 1, p - 1) \o SubSeq(s, p + 1, Len(s))

\* record_window_activation(h) records: h is a live window, no jump is in
\* progress and the cursor's entry (if any) is another handle
RecordCase(h) ==
    /\ h \in alive
    /\ ~is_jumping
    /\ \/ history = <<>>
       \/ /\ 0 <= current_index
          /\ current_index < Len(history)
          /\ history[current_index + 1] # h

\* C1 as stated: a recording record_activation(h) replaces the sequence by its
\* prefix up to and including the cursor followed by h, with the cursor on the
\* last index.
C1_RecordAppendsToPrefix ==
    [][\A h \in Handles :
          (RecordCase(h) /\ record_window_activation(h))
          => /\ history' = Append(Prefix(history, current_index), h)
             /\ current_index' = Len(history') - 1]_vars

\* C1 amended: a recording record_activation(h) replaces the sequence by the
\* last MaxHistory entries of (prefix up to and including the cursor, then h)
\* and puts the cursor on the last index; the oldest entry is dropped exactly
\* when the prefix already holds MaxHistory entries.
C1_RecordTruncatesAndAppends ==
    [][\A h \in Handles :
          (RecordCase(h) /\ record_window_activation(h))
          => /\ history' =
                  LastN(Append(Prefix(history, current_index), h), MaxHistory)
             /\ current_index' = Len(history') - 1]_vars

\* [A,B,C,D], two steps back, then E recorded: [A,B,E] with the cursor on E
C1_Witness ==
    /\ history = <<1, 2, 5>>
    /\ current_index = 2
    /\ ~is_jumping
    /\ ret = "none"

\* C2: the cursor is -1 when the sequence is empty and otherwise an index of
\* the sequence, 0 <= cursor <= len-1.
C2_CursorInRange ==
    /\ (history = <<>>) => (current_index = -1)
    /\ (history # <<>>) =>
          (0 <= current_index /\ current_index <= Len(history) - 1)

\* jump_to_next meets one dead entry just after the cursor, a live one behind it
NextDeadCase ==
    /\ ~is_jumping
    /\ 0 <= current_index
    /\ current_index + 3 <= Len(history)
    /\ history[current_index + 2] \notin alive
    /\ history[current_index + 3] \in alive

\* C3: jump_to_next with a dead entry just after the cursor and a live entry
\* behind it removes the dead entry, starts activating the live entry and
\* leaves the cursor on it.
C3_NextSkipsDeadEntry ==
    [][(NextDeadCase /\ jump_to_next)
       => /\ history' = RemoveAt(history, current_index + 2)
          /\ current_index' = current_index + 1
          /\ is_jumping'
          /\ target' = history[current_index + 3]]_vars

\* jump_to_previous meets a dead entry just before the cursor, a live one
\* further back
PrevDeadCase ==
    /\ ~is_jumping
    /\ 1 <= current_index
    /\ current_index <= Len(history) - 1
    /\ history[current_index] \notin alive
    /\ \E j \in 1..current_index : history[j] \in alive

\* position (1-based) of the nearest live entry before the cursor
NearestLiveBefore ==
    CHOOSE j \in 1..current_index :
        /\ history[j] \in alive
        /\ \A k \in (j + 1)..current_index : history[k] \notin alive

\* C4: jump_to_previous over dead entries removes exactly the entries at the
\* positions it examined (those between the nearest earlier live entry and the
\* cursor), keeps every other entry in order, leaves the cursor on that live
\* entry and starts activating it.
C4_PrevRemovesExaminedDead ==
    [][(PrevDeadCase /\ jump_to_previous)
       => LET j == NearestLiveBefore
          IN  /\ history' = SubSeq(history, 1, j)
                              \o SubSeq(history, current_index + 1, Len(history))
              /\ current_index' = j - 1
              /\ is_jumping'
              /\ target' = history[j]]_vars

\* C5: no history operation raises an exception.
C5_NeverRaises == ret # "raise"

----------------------------------------------------------------------------
(* Window index: properties *)

ScanWrites == ScanCallback \/ ScanWriteLastActive

\* C6: when a scan cycle completes, every record left in the index belongs to
\* a handle the cycle's enumeration contained (records of closed windows are
\* gone).
C6_AbsentHandleRemoved ==
    [][ScanEnd => \A h \in DOMAIN windows' : h \in scanEnum]_vars

\* C7: what get_all_windows returned during a scan cycle is the index as it
\* was before the cycle's merge or as it is after it, never a state between.
C7_NoPartialRead ==
    (scanPc = "enum" /\ scanTodo = {} /\ readSnap.taken)
    => (readSnap.view = prior \/ readSnap.view = View(windows))

\* C8: every write to the handle-to-record map or to a record is made by a
\* thread that holds the index lock.
C8_WritesUnderLock ==
    [][/\ (ScanWrites /\ windows' # windows) => lockOwner = "scan"
       /\ ((UpdateActivityWrite \/ EditTags) /\ windows' # windows)
             => lockOwner = "ui"]_vars

\* C9: a scan step leaves last_active of every record already in the index
\* unchanged.
C9_ScanKeepsLastActive ==
    [][ScanWrites =>
          \A h \in DOMAIN windows :
              h \in DOMAIN windows'
              => windows'[h].last_active = windows[h].last_active]_vars

\* the scan thread and the tag dialog alone: no reader of the index and no
\* activity update beside them
TagNext ==
    \/ WindowOpens
    \/ WindowCloses
    \/ TitleChanges
    \/ Tick
    \/ ScanStart
    \/ ScanCallback
    \/ ScanWriteLastActive
    \/ ScanEnd
    \/ OpenTagDialog
    \/ CancelTagDialog
    \/ EditTags

TagSpec == Init /\ [][TagNext]_vars

\* C10: the tags of a record change only through a tag edit; every scan step
\* leaves the tags of every record already in the index unchanged.
C10_ScanKeepsTags ==
    [][\A h \in DOMAIN windows :
          (h \in DOMAIN windows' /\ windows'[h].tags # windows[h].tags)
          => (EditTags /\ ~ScanWrites)]_vars

\* a scan is refreshing the record of a window the user has tagged
C10_Witness ==
    /\ scanPc = "last_active"
    /\ scanCur \in DOMAIN windows
    /\ windows[scanCur].tags = "t"
    /\ windows[scanCur].title = "b"
    /\ clock > windows[scanCur].last_active

----------------------------------------------------------------------------
(* Activation history: jumps and capacity *)

\* C13: record_activation during a jump changes neither the sequence nor the
\* cursor; the jumping flag is set exactly while a window is being activated
\* and every end of the activation (True or False, exceptions being caught)
\* clears it.
C13_JumpNotRecorded ==
    [][/\ (is_jumping /\ RecordActivation)
          => (history' = history /\ current_index' = current_index)
       /\ is_jumping' <=> (target' # 0)
       /\ JumpFinish => ~is_jumping']_vars

\* a jump back from the tail is activating its target
C13_Witness ==
    /\ is_jumping
    /\ target \in alive
    /\ Len(history) >= 2
    /\ current_index < Len(history) - 1
    /\ PyGet(history, current_index) = target

\* C14: a jump that found a live target and whose activation failed (the call
\* returns false) leaves the sequence and the cursor as they were when
\* jump_to_previous / jump_to_next was called.
C14_FailedJumpNoOp ==
    [][(JumpFinish /\ ret' = "false")
       => (history' = entry.h /\ current_index' = entry.c)]_vars

\* C15: the sequence never holds more than MaxHistory entries, and recording a
\* new handle on a full sequence with the cursor on its tail (as after
\* MaxHistory recordings in a row) drops the oldest entry, keeps the others in
\* order, appends the handle and leaves the cursor on index MaxHistory - 1.
C15_BoundedEviction ==
    [][/\ Len(history') <= MaxHistory
       /\ \A h \in Handles :
             (/\ Len(history) = MaxHistory
              /\ current_index = MaxHistory - 1
              /\ RecordCase(h)
              /\ record_window_activation(h))
             => /\ history' = Append(Tail(history), h)
                /\ current_index' = MaxHistory - 1]_vars

\* 1, 2, 3, 4, 5 recorded in a row
C15_Witness ==
    /\ history = <<2, 3, 4, 5>>
    /\ current_index = 3
    /\ ret = "none"
    /\ alive = Handles

\* C16: record_activation(h) with h the entry at the cursor changes neither
\* sequence nor cursor, at the tail or in the middle; a recording leaves the
\* cursor on the recorded handle and adds at most one entry, so recording the
\* same handle again adds nothing.
C16_SameHandleNoOp ==
    [][\A h \in Handles :
          /\ (/\ 0 <= current_index
              /\ current_index < Len(history)
              /\ history[current_index + 1] = h
              /\ record_window_activation(h))
             => (history' = history /\ current_index' = current_index)
          /\ (RecordCase(h) /\ record_window_activation(h))
             => /\ Len(history') <= Len(history) + 1
                /\ history'[current_index' + 1] = h]_vars

\* after a jump back the activated handle was recorded again: the cursor is
\* still in the middle and the entry behind it is still there
C16_Witness ==
    /\ ~is_jumping
    /\ Len(history) = 3
    /\ current_index = 1
    /\ history[2] \in alive
    /\ history[3] # history[2]
    /\ ret = "none"

\* a is a subsequence of b (entries of b dropped, none added or reordered)
RECURSIVE IsSubSeq(_, _)
IsSubSeq(a, b) ==
    IF a = <<>> THEN TRUE
    ELSE IF b = <<>> THEN FALSE
    ELSE IF Head(a) = Head(b) THEN IsSubSeq(Tail(a), Tail(b))
    ELSE IsSubSeq(a, Tail(b))

IsLive(x) == x \in alive

\* C17: every step of a jump leaves a sequence that is the previous one with
\* dead handles dropped: nothing is added, and the live handles are the same,
\* in the same order.
C17_JumpOnlyDropsDead ==
    [][(history' # history /\ (jump_to_previous \/ jump_to_next \/ JumpFinish))
       => /\ IsSubSeq(history', history)
          /\ SelectSeq(history', IsLive) = SelectSeq(history, IsLive)]_vars

\* a jump dropped dead handles on its way to a live target
C17_Witness ==
    /\ is_jumping
    /\ Len(history) < Len(entry.h)
    /\ Len(history) >= 2

----------------------------------------------------------------------------
(* Search: properties *)

\* C19: the rows shown for a query are ordered by match_count, highest first,
\* and rows of equal match_count by last_active, latest first.
C19_ShownRanked ==
    \A i, j \in 1..Len(shown) :
        (i < j) =>
            \/ results[i].match_count > results[j].match_count
            \/ /\ results[i].match_count = results[j].match_count
               /\ windows[shown[i]].last_active
                     >= windows[shown[j]].last_active

\* keyword k occurs in text t, letter case ignored
CaselessIn(k, t) ==
    \E i \in 0..(Len(t) - Len(k)) :
        \A j \in 1..Len(k) : Lower(t[i + j]) = Lower(k[j])

\* keyword k matches the title, the tags or the phonetic form of either
KeywordMatches(rec, k) ==
    \/ CaselessIn(k, rec.title)
    \/ CaselessIn(k, rec.tags)
    \/ CaselessIn(k, PinyinGet(rec.title))
    \/ CaselessIn(k, PinyinGet(rec.tags))

\* the positions of the keyword list whose keyword matches the record
MatchingKeywords(rec) ==
    {i \in 1..Len(keywords) : KeywordMatches(rec, keywords[i])}

\* C20: the list search_windows returned for its keyword list holds exactly
\* one entry for every record with a matching keyword and nothing else; the
\* match_count of an entry is the number of keywords of the list (repeated
\* keywords counted) that match its record, between 1 and the list's length.
C20_SearchCounts ==
    /\ \A i \in 1..Len(results) :
          /\ results[i].hwnd \in DOMAIN windows
          /\ results[i].match_count
                = Cardinality(MatchingKeywords(windows[results[i].hwnd]))
          /\ 1 <= results[i].match_count
          /\ results[i].match_count <= Len(keywords)
    /\ \A h \in DOMAIN windows :
          Cardinality({i \in 1..Len(results) : results[i].hwnd = h})
             = IF MatchingKeywords(windows[h]) # {} THEN 1 ELSE 0

\* two keywords; one record matches one of them through its tags only, the
\* other matches both, one through the reading of its title
C20_Witness ==
    /\ Len(keywords) = 2
    /\ Len(results) = 2
    /\ \E i, j \in 1..2 :
          /\ results[i].match_count = 1
          /\ windows[results[i].hwnd].title = <<"A", "b">>
          /\ ~(\E n \in 1..2 : CaselessIn(keywords[n], <<"A", "b">>))
          /\ results[j].match_count = 2
          /\ windows[results[j].hwnd].title = <<Hanzi>>

----------------------------------------------------------------------------
(* Index population and shutdown: properties *)

\* the callback runs for handle h in this step
CallbackRuns(h) ==
    /\ scanPc = "enum"
    /\ h \in scanTodo
    /\ h \notin scanTodo'

\* C11: a window the scan enumerates as valid (it has a title) on a desktop
\* whose bridge is healthy has a record once its callback has run, hence when
\* the cycle completes (records are never deleted); a record made for a handle
\* not indexed before has empty tags.
C11_ValidWindowIndexed ==
    [][\A h \in IdxHandles :
          (CallbackRuns(h) /\ h \in DOMAIN osTitle /\ osTitle[h] # "")
          => /\ h \in DOMAIN windows'
             /\ (h \notin DOMAIN windows) => (windows'[h].tags = "")]_vars

\* C12: once stop() has returned the scan thread has left its loop, and from
\* then on no scan cycle starts and no scan step writes to the index.
C12_NoScanAfterStop ==
    [][(stopPc' = "returned")
       => /\ scanPc' = "exited"
          /\ (stopPc = "returned") => (windows' = windows /\ scanPc' = scanPc)
      ]_vars

\* stop() has returned although a titled window was never indexed
C12_Witness ==
    /\ stopPc = "returned"
    /\ ~running
    /\ \E h \in DOMAIN osTitle : osTitle[h] # "" /\ h \notin DOMAIN windows

----------------------------------------------------------------------------
(* Search: growing the query *)

\* match_count of handle h in a list search_windows returned, 0 when absent
CountIn(res, h) ==
    IF \E i \in 1..Len(res) : res[i].hwnd = h
    THEN (CHOOSE e \in {res[i] : i \in 1..Len(res)} : e.hwnd = h).match_count
    ELSE 0

\* C21: with the index fixed, the search for the keyword list with one more
\* keyword appended gives every record the match_count it had, plus one
\* exactly when the added keyword matches the record (never less); the search
\* for the empty list returns nothing.
C21_AppendKeywordMonotone ==
    /\ (keywords = <<>>) => (results = <<>>)
    /\ \A k \in Keywords :
          LET longer == SearchLoop(windows, order, Append(keywords, k)) IN
          \A h \in DOMAIN windows :
             CountIn(longer, h)
                = CountIn(results, h)
                     + (IF KeywordMatches(windows[h], k) THEN 1 ELSE 0)

\* a search of two keywords was made over two records; one record matches
\* both keywords, the other none, and a third keyword would match only one
C21_Witness ==
    /\ Len(keywords) = 2
    /\ DOMAIN windows = IdxHandles
    /\ \E h \in DOMAIN windows : CountIn(results, h) = 2
    /\ \E h \in DOMAIN windows : CountIn(results, h) = 0
    /\ \E k \in Keywords :
          /\ \E h \in DOMAIN windows : KeywordMatches(windows[h], k)
          /\ \E h \in DOMAIN windows : ~KeywordMatches(windows[h], k)

----------------------------------------------------------------------------
(* The scan: filter, configuration, failures *)

\* C22: every record a scan step inserts or refreshes belongs to a window
\* that is then valid: visible, with a title that is not empty after
\* trimming, of a class outside the exclusion set and not popup-style; so a
\* window failing one of the four conditions is never inserted.
C22_OnlyValidWindowsIndexed ==
    [][\A h \in IdxHandles :
          (/\ ScanCallback
           /\ h \in DOMAIN windows'
           /\ \/ h \notin DOMAIN windows
              \/ windows'[h] # windows[h]
              \/ scanCur' = h)
          => _is_valid_window(h)]_vars

\* C23: a scan interval set on the configuration page stays in effect: the
\* sleep that follows every later scan cycle lasts the interval last set.
C23_IntervalChangeStays ==
    [][(ScanEnd \/ ScanAborts) => (scan_interval = guiConfig)]_vars

\* C26: a scan cycle that failed does not end the loop: unless stop() is
\* called, another cycle starts after it.
C26_FailedCycleIsFollowed ==
    cycleFailed ~> (scanPc = "enum" \/ ~running)

\* the loop sleeps after a failed cycle, with records made by earlier cycles
C26_Witness ==
    /\ cycleFailed
    /\ scanPc = "sleep"
    /\ running
    /\ windows # EmptyMap

\* C24: a callback whose bridge calls give no desktop id (they return nothing
\* or raise) for a handle already in the index leaves the record of that
\* handle in the index with every field unchanged.
C24_UnresolvedHandleSkipped ==
    [][\A h \in DOMAIN windows :
          (CallbackBody(h, "none") \/ CallbackBody(h, "raise"))
          => (h \in DOMAIN windows' /\ windows'[h] = windows[h])]_vars

\* handle 1 was met by this cycle, its window is titled "b", and its record
\* still holds the title "a" of an earlier cycle
C24_Witness ==
    /\ scanPc = "enum"
    /\ 1 \in scanEnum \ scanTodo
    /\ 1 \in DOMAIN windows /\ 1 \in DOMAIN osTitle
    /\ osTitle[1] = "b"
    /\ windows[1].title = "a"

\* C25: an exception raised while one handle is enriched changes no record,
\* and the enumeration goes on: the cycle stays in its enumeration and the
\* other handles of the cycle still wait for their callback.
C25_ExceptionConfined ==
    [][\A h \in IdxHandles :
          (CallbackRuns(h) /\ CallbackBody(h, "raise"))
          => /\ windows' = windows
             /\ scanPc' = "enum"
             /\ scanTodo' = scanTodo \ {h}]_vars

\* a callback raised for handle 1 while handle 2 still waits for its own
C25_Witness ==
    /\ scanPc = "enum"
    /\ scanCur = 0
    /\ 1 \in scanEnum \ scanTodo
    /\ 2 \in scanTodo
    /\ 1 \notin DOMAIN windows
    /\ 1 \in DOMAIN osTitle /\ osTitle[1] # ""

\* the list get_all_windows returned, as its holder sees it now: list(...)
\* copies the references, so each element is the index's own record object
Returned == [h \in DOMAIN readSnap.view |-> windows[h]]

\* C27: the records of a list returned by get_all_windows keep the field
\* values they had when the call returned, whatever the scan does afterwards.
C27_ReturnedListFrozen ==
    readSnap.taken => (View(Returned) = readSnap.view)

-----------------------------------------------------------------------------
(* Activation: the desktop bridge query and the three activators *)

\* the frame of an activation step: nothing of the history but the windows'
\* lives, nothing of the index, the search or the configuration
ActFrame ==
    /\ UNCHANGED <<history, current_index, is_jumping, target, ret, entry>>
    /\ UNCHANGED <<indexVars, lifeVars, searchVars, styleVars, cfgVars, mgrVars>>

\* what C#'s IsWindowOnCurrentVirtualDesktop can do
CallOutcomes == {"true", "false", "raise"}

\* _ensure_initialized: True when initialised or when _init_manager succeeds
_ensure_initialized(init, reinit) == init \/ reinit

\* the branch is_window_on_current_desktop takes for hwnd (0 = null handle)
OnCurrentCase(hwnd, init, reinit, call) ==
    IF ~_ensure_initialized(init, reinit) THEN "no_init"
    ELSE IF hwnd = 0 \/ hwnd \notin alive THEN "dead"
    ELSE IF call = "raise" THEN "call_raised"
    ELSE "ok"

\* ... with a failure answered by "not on the current desktop"
OnCurrentRet_Pessimistic(case, call) ==
    IF case = "ok" THEN call ELSE "false"

\* what is_window_on_current_desktop returns in that branch
OnCurrentRet(case, call) ==
    IF case = "ok" THEN call ELSE "true"

\* self._initialized after the call
OnCurrentInit(case, init) ==
    CASE case = "no_init"     -> FALSE
      [] case = "call_raised" -> FALSE
      [] OTHER                -> TRUE

\* the handles an activation is asked for: two live or closed windows and null
ActHandles == {0, 1, 2}

\* VirtualDesktopManager.is_window_on_current_desktop(hwnd)
is_window_on_current_desktop ==
    \E hwnd \in ActHandles, reinit \in BOOLEAN, call \in CallOutcomes :
        LET case == OnCurrentCase(hwnd, bridgeInit, reinit, call) IN
        /\ fgPc = "idle"
        /\ vdCase' = case
        /\ vdRet' = OnCurrentRet(case, call)
        /\ bridgeInit' = OnCurrentInit(case, bridgeInit)
        /\ UNCHANGED <<attached, fgPc, fgRet, actRet, alive>>
        /\ ActFrame

\* SearchWindow.activate_window(window): the bridge query, the desktop switch
\* (VirtualDesktopManager has no switch_desktop: AttributeError), ShowWindow,
\* SetForegroundWindow; no try, no return statement
activate_window ==
    \E hwnd \in ActHandles, reinit \in BOOLEAN, call \in CallOutcomes,
       desktop_id \in BOOLEAN, foreground \in {"ok", "raise"} :
        LET case == OnCurrentCase(hwnd, bridgeInit, reinit, call)
            on   == OnCurrentRet(case, call)
        IN
        /\ fgPc = "idle"
        /\ vdCase' = case
        /\ vdRet' = on
        /\ bridgeInit' = OnCurrentInit(case, bridgeInit)
        /\ actRet' = IF on = "raise" THEN "raise"
                     ELSE IF on = "false" /\ desktop_id THEN "raise"
                     ELSE IF foreground = "raise" THEN "raise"
                     ELSE "returned_none"
        /\ UNCHANGED <<attached, fgPc, fgRet, alive>>
        /\ ActFrame

\* window_actions.jump_to_window(window): try ... return True, except
\* Exception ... return False
jump_to_window ==
    \E foreground \in {"ok", "raise"} :
        /\ fgPc = "idle"
        /\ actRet' = IF foreground = "ok" THEN "true" ELSE "false"
        /\ UNCHANGED <<bridgeInit, vdCase, vdRet, attached, fgPc, fgRet, alive>>
        /\ ActFrame

\* the two _try_set_foreground_window and what their inner try can end with:
\* WindowHistoryManager's returns True or raises, WindowManager's also
\* returns False after three refused SetForegroundWindow
Activators == {"history", "manager"}

BodyOutcomes(who) ==
    IF who = "history" THEN {"true", "raise"} ELSE {"true", "false", "raise"}

\* _try_set_foreground_window up to AttachThreadInput(..., True): a raise of
\* the thread queries or of the attach goes to the outer except
TrySetForeground_Attach ==
    \E step \in {"ok", "raise"} :
        /\ fgPc = "idle"
        /\ IF step = "ok"
           THEN /\ attached' = TRUE
                /\ fgPc' = "body"
                /\ fgRet' = "none"
           ELSE /\ fgRet' = "false"
                /\ UNCHANGED <<attached, fgPc>>
        /\ UNCHANGED <<bridgeInit, vdCase, vdRet, actRet, alive>>
        /\ ActFrame

\* the inner try: show, set foreground, fall back; fgRet holds what the
\* inner try ends with until the finally clause has run
TrySetForeground_Body ==
    \E who \in Activators : \E outcome \in BodyOutcomes(who) :
        /\ fgPc = "body"
        /\ fgRet' = outcome
        /\ fgPc' = "finally"
        /\ UNCHANGED <<bridgeInit, vdCase, vdRet, attached, actRet, alive>>
        /\ ActFrame

\* ... with the detach skipped when the inner try raised
Detach_OnReturnOnly(isAttached, pending) == isAttached /\ pending = "raise"

\* finally: AttachThreadInput(..., False); the queues are detached after it
Detach(isAttached, pending) == FALSE

\* the finally clause, then the return of the inner try or the outer except;
\* a detach that raises (the thread is gone) also goes to the outer except
TrySetForeground_Finally ==
    \E detach \in {"ok", "raise"} :
        /\ fgPc = "finally"
        /\ attached' = Detach(attached, fgRet)
        /\ fgRet' = IF fgRet = "raise" \/ detach = "raise" THEN "false"
                    ELSE fgRet
        /\ fgPc' = "idle"
        /\ UNCHANGED <<bridgeInit, vdCase, vdRet, actRet, alive>>
        /\ ActFrame

ActNext ==
    \/ WindowDies
    \/ is_window_on_current_desktop
    \/ activate_window
    \/ jump_to_window
    \/ TrySetForeground_Attach
    \/ TrySetForeground_Body
    \/ TrySetForeground_Finally

ActSpec == Init /\ [][ActNext]_vars

\* C28: no activation call raises to its caller.
C28_ActivationNeverRaises == actRet # "raise"

\* C29: no call of _try_set_foreground_window has returned with the input
\* queues still attached.
C29_DetachedOnReturn == (fgPc = "idle") => ~attached

\* a call has attached the queues, run its inner try to the end and returned
C29_Witness == fgPc = "idle" /\ fgRet = "true" /\ ~attached

\* C30: is_window_on_current_desktop answers true when the bridge is not
\* initialised and cannot be, when the handle is no live window and when the
\* C# call raises, and it never raises.
C30_FailureMeansCurrentDesktop ==
    /\ (vdCase \in {"no_init", "dead", "call_raised"}) => (vdRet = "true")
    /\ vdRet # "raise"

\* the C# call raised, and the next query found the bridge uninitialised and
\* beyond re-initialisation
C30_Witness == vdCase = "no_init" /\ vdRet = "true" /\ ~bridgeInit

-----------------------------------------------------------------------------
(* Activation of a listed window: the result *)

\* C31: an activation of a window that the bridge query of that call reports
\* on the current desktop, and whose OS calls all succeed, returns true.
C31_CurrentDesktopActivationTrue ==
    [][(activate_window /\ vdRet' = "true" /\ actRet' # "raise")
          => (actRet' = "true")]_vars

-----------------------------------------------------------------------------
(* HistoryPage: the history table of the settings window *)

\* _on_item_double_clicked(item): jump to the window of the row; when
\* _jump_to_window gave True the page sets the manager's cursor to the row
_on_item_double_clicked ==
    \E row \in 0..(Len(history) - 1), ok \in BOOLEAN :
        /\ ~is_jumping
        /\ PyGet(history, row) \in alive
        /\ current_index' = IF ok THEN row ELSE current_index
        /\ ret' = "none"
        /\ UNCHANGED <<history, is_jumping, target, alive, entry>>
        /\ UNCHANGED <<indexVars, lifeVars, searchVars, styleVars, cfgVars, actVars, mgrVars>>

\* _remove_selected_item: the page removes the row's handle from the
\* manager's deque (first occurrence) and moves the manager's cursor
_remove_selected_item ==
    \E row \in 0..(Len(history) - 1) :
        /\ ~is_jumping
        /\ history' = DequeRemove(history, PyGet(history, row))
        /\ current_index' = IF current_index >= row
                            THEN (IF current_index - 1 > 0
                                  THEN current_index - 1 ELSE 0)
                            ELSE current_index
        /\ ret' = "none"
        /\ UNCHANGED <<is_jumping, target, alive, entry>>
        /\ UNCHANGED <<indexVars, lifeVars, searchVars, styleVars, cfgVars, actVars, mgrVars>>

PageNext ==
    \/ RecordActivation
    \/ jump_to_previous
    \/ jump_to_next
    \/ JumpFinish
    \/ clear_history
    \/ WindowDies
    \/ _on_item_double_clicked
    \/ _remove_selected_item

PageSpec == Init /\ [][PageNext]_vars

\* C32: the deque and the cursor change only in a step of the manager's own
\* record_window_activation, jump_to_previous, jump_to_next or clear_history.
C32_OnlyManagerWrites ==
    [][(history' # history \/ current_index' # current_index)
          => (RecordActivation \/ jump_to_previous \/ jump_to_next
                \/ clear_history)]_vars

-----------------------------------------------------------------------------
(* Tags *)

\* C33: a confirmed tag edit with text t on the record of an indexed handle
\* sets the tags of that record to t, the empty text included, and changes no
\* other field and no other record.
C33_TagEditSetsTags ==
    [][\A h \in DOMAIN windows : \A t \in TagValues :
          _open_tag_input_dialog(h, t)
          => /\ windows'[h] = [windows[h] EXCEPT !.tags = t]
             /\ \A g \in DOMAIN windows \ {h} : windows'[g] = windows[g]]_vars

-----------------------------------------------------------------------------
(* Search: phonetic keywords *)

\* text t holds a Chinese character
HasHanzi(t) == \E i \in 1..Len(t) : t[i] = Hanzi

\* keyword k is, letter case ignored, the romanized form of text t
IsReadingOf(k, t) == HasHanzi(t) /\ LowerText(k) = LowerText(PinyinGet(t))

\* C34: a record whose title or tags are written in Chinese characters is in
\* the result of a search one of whose keywords is the romanized form of that
\* text, in whatever letter case.
C34_PinyinKeywordFinds ==
    \A i \in 1..Len(keywords) : \A h \in DOMAIN windows :
        (IsReadingOf(keywords[i], windows[h].title)
            \/ IsReadingOf(keywords[i], windows[h].tags))
        => (\E j \in 1..Len(results) : results[j].hwnd = h)

\* the search for "Ba" returned one record for its title and one for its tags
C34_Witness ==
    /\ keywords = << <<"B", "a">> >>
    /\ Len(results) = 2
    /\ \E h \in DOMAIN windows :
          windows[h].title = <<Hanzi>> /\ windows[h].tags = <<>>
    /\ \E h \in DOMAIN windows :
          windows[h].title = <<"A", "b">> /\ windows[h].tags = <<Hanzi>>

-----------------------------------------------------------------------------
(* History: the jump target and its late activation *)

\* C35: when a jump ends with True the entry at the cursor is the window it
\* activated; an activation of the entry at the cursor recorded next, with
\* _is_jumping cleared, leaves deque and cursor as they are.
C35_LateActivationNoOp ==
    [][/\ (JumpFinish /\ ret' = "true")
            => /\ PyIndexOK(history', current_index')
               /\ PyGet(history', current_index') = target
       /\ \A h \in Handles :
            (/\ ret = "true"
             /\ ~is_jumping
             /\ PyIndexOK(history, current_index)
             /\ PyGet(history, current_index) = h
             /\ record_window_activation(h))
            => (history' = history /\ current_index' = current_index)]_vars

\* a jump back has returned True and entries lie ahead of the cursor
C35_Witness ==
    /\ ret = "true"
    /\ ~is_jumping
    /\ history # <<>>
    /\ current_index >= 0
    /\ current_index < Len(history) - 1
    /\ PyGet(history, current_index) \in alive

-----------------------------------------------------------------------------
(* History: the retries of a jump *)

\* counting of retries stops here
RetryCap == MaxHistory + 2

\* the recursive calls jump_to_previous makes from deque s and cursor c after
\* finding a dead handle, n made so far
RECURSIVE PrevRetries(_, _, _, _)
PrevRetries(s, c, live, n) ==
    IF n > RetryCap \/ s = <<>> \/ c <= 0 THEN n
    ELSE LET c1 == c - 1 IN
         IF ~PyIndexOK(s, c1) THEN n
         ELSE LET hw == PyGet(s, c1) IN
              IF hw \notin live
              THEN LET s2 == DequeRemove(s, hw)
                       c2 == IF c1 >= Len(s2) THEN Len(s2) - 1 ELSE c1
                   IN  IF s2 # <<>> THEN PrevRetries(s2, c2, live, n + 1)
                       ELSE n
              ELSE n

\* the recursive calls jump_to_next makes
RECURSIVE NextRetries(_, _, _, _)
NextRetries(s, c, live, n) ==
    IF n > RetryCap \/ s = <<>> \/ c >= Len(s) - 1 THEN n
    ELSE LET c1 == c + 1 IN
         IF ~PyIndexOK(s, c1) THEN n
         ELSE LET hw == PyGet(s, c1) IN
              IF hw \notin live
              THEN LET s2 == DequeRemove(s, hw)
                   IN  IF s2 # <<>> THEN NextRetries(s2, c1, live, n + 1)
                       ELSE n
              ELSE n

\* C40: from every deque, cursor and set of closed windows the manager can
\* be in, jump_to_previous and jump_to_next make fewer recursive calls than
\* the deque has entries, and each call is made on a deque one entry shorter,
\* so each of them returns.
C40_JumpRetriesBounded ==
    /\ PrevRetries(history, current_index, alive, 0) <= Len(history)
    /\ NextRetries(history, current_index, alive, 0) <= Len(history)
    /\ Len(PrevWalk(history, current_index, alive).h)
          <= Len(history) - PrevRetries(history, current_index, alive, 0)
    /\ Len(NextWalk(history, current_index, alive).h)
          <= Len(history) - NextRetries(history, current_index, alive, 0)
    /\ (history # <<>>) =>
          /\ PrevRetries(history, current_index, alive, 0) < Len(history)
          /\ NextRetries(history, current_index, alive, 0) < Len(history)

\* a jump that met two closed windows, removed both and found a live one
C40_Witness ==
    /\ is_jumping
    /\ Len(entry.h) = Len(history) + 2
    /\ target \in alive

-----------------------------------------------------------------------------
(* HotkeyManager *)

\* hotkey strings and the callbacks bound to them
Hotkeys   == {"ctrl+1", "ctrl+2", "ctrl+3"}
Callbacks == {"toggle", "search", "jump"}

\* a hotkey manager step leaves everything else alone
HotkeyFrame ==
    /\ UNCHANGED <<managed, is_visible, osShown, toggleRet, quitDone>>
    /\ UNCHANGED <<histVars, indexVars, lifeVars, searchVars, styleVars,
                   cfgVars, actVars>>

\* unregister_hotkey(hotkey) called with the lock free: the binding is
\* removed if there is one; a raise of keyboard.remove_hotkey gives False
unregister_hotkey(hotkey) ==
    \E removes \in {"ok", "raise"} :
        /\ hkPc = "idle"
        /\ hkLock = "free"
        /\ IF hotkey \in DOMAIN hotkeys /\ removes = "raise"
           THEN /\ hkRet' = "false"
                /\ UNCHANGED hotkeys
           ELSE /\ hotkeys' = DictDel(hotkeys, hotkey)
                /\ hkRet' = "true"
        /\ UNCHANGED <<hkLock, hkPc>>
        /\ HotkeyFrame

\* register_hotkey(hotkey, callback): with self._lock; a hotkey already bound
\* makes it call unregister_hotkey, whose own "with self._lock" waits for the
\* threading.Lock the caller holds; otherwise keyboard.add_hotkey binds it or
\* raises
register_hotkey(hotkey, callback) ==
    \E adds \in {"ok", "raise"} :
        /\ hkPc = "idle"
        /\ hkLock = "free"
        /\ IF hotkey \in DOMAIN hotkeys
           THEN /\ hkLock' = "held"
                /\ hkPc' = "blocked"
                /\ UNCHANGED <<hotkeys, hkRet>>
           ELSE IF adds = "raise"
           THEN /\ hkRet' = "false"
                /\ UNCHANGED <<hotkeys, hkLock, hkPc>>
           ELSE /\ hotkeys' = DictSet(hotkeys, hotkey, callback)
                /\ hkRet' = "true"
                /\ UNCHANGED <<hkLock, hkPc>>
        /\ HotkeyFrame

\* clear_all_hotkeys: with self._lock: unregister_hotkey for each hotkey; the
\* first of these calls waits for the lock the caller holds
clear_all_hotkeys ==
    /\ hkPc = "idle"
    /\ hkLock = "free"
    /\ IF hotkeys = EmptyMap
       THEN /\ hkRet' = "returned_none"
            /\ UNCHANGED <<hotkeys, hkLock, hkPc>>
       ELSE /\ hkLock' = "held"
            /\ hkPc' = "blocked"
            /\ UNCHANGED <<hotkeys, hkRet>>
    /\ HotkeyFrame

RegisterHotkey ==
    \E hotkey \in Hotkeys, callback \in Callbacks :
        register_hotkey(hotkey, callback)

UnregisterHotkey == \E hotkey \in Hotkeys : unregister_hotkey(hotkey)

HotkeyNext ==
    \/ RegisterHotkey
    \/ UnregisterHotkey
    \/ clear_all_hotkeys

HotkeySpec == Init /\ [][HotkeyNext]_vars

\* C36: register_hotkey for a hotkey that is already bound removes the old
\* binding, binds the new callback, returns True and leaves the lock free.
C36_RebindReturns ==
    [][\A hotkey \in Hotkeys : \A callback \in Callbacks :
          (hotkey \in DOMAIN hotkeys /\ register_hotkey(hotkey, callback))
          => /\ hkPc' = "idle"
             /\ hkLock' = "free"
             /\ hkRet' = "true"
             /\ hotkey \in DOMAIN hotkeys'
             /\ hotkeys'[hotkey] = callback]_vars

\* C37: clear_all_hotkeys returns with no hotkey bound and the lock free.
C37_ClearAllReturns ==
    [][clear_all_hotkeys
          => /\ hkPc' = "idle"
             /\ hkLock' = "free"
             /\ hotkeys' = EmptyMap]_vars

-----------------------------------------------------------------------------
(* WindowManager: captured windows and their hotkey toggle *)

\* a window manager step leaves everything else alone
ToggleFrame ==
    /\ UNCHANGED <<hotkeys, hkLock, hkPc, hkRet>>
    /\ UNCHANGED <<history, current_index, is_jumping, target, ret, entry>>
    /\ UNCHANGED <<indexVars, lifeVars, searchVars, styleVars, cfgVars,
                   actVars>>

\* capture_active_window: the foreground window, not yet managed, gets a
\* record with is_visible at its default True
capture_active_window ==
    \E handle \in MgrHandles :
        /\ ~quitDone
        /\ handle \in alive
        /\ osShown[handle]
        /\ handle \notin managed
        /\ managed' = managed \cup {handle}
        /\ is_visible' = DictSet(is_visible, handle, TRUE)
        /\ UNCHANGED <<osShown, toggleRet, quitDone, alive>>
        /\ ToggleFrame

\* _is_window_in_other_desktop for a window that is not minimized: True when
\* the bridge answers "not on the current desktop", and also when it answers
\* "on the current desktop" and IsWindowVisible is false
_is_window_in_other_desktop(handle, bridgeOther) ==
    bridgeOther \/ ~osShown[handle]

\* how WindowManager._try_set_foreground_window can end: the thread queries
\* or the attach raise (False, nothing shown), or the window is shown and
\* SetForegroundWindow succeeds (True) or is refused three times (False)
FgOutcomes == {"attach_raise", "true", "false"}

\* toggle_window_visibility(handle)
toggle_window_visibility(handle, bridgeOther, fg) ==
    /\ ~quitDone
    /\ UNCHANGED <<managed, quitDone, alive>>
    /\ ToggleFrame
    /\ IF handle \notin managed \/ handle \notin alive
       THEN /\ toggleRet' = "false"
            /\ UNCHANGED <<is_visible, osShown>>
       ELSE IF _is_window_in_other_desktop(handle, bridgeOther)
       THEN \* SW_HIDE, then _try_set_foreground_window; the record is not
            \* written
            /\ osShown' = [osShown EXCEPT ![handle] = (fg # "attach_raise")]
            /\ toggleRet' = IF fg = "true" THEN "true" ELSE "false"
            /\ UNCHANGED is_visible
       ELSE IF is_visible[handle]
       THEN /\ osShown' = [osShown EXCEPT ![handle] = FALSE]
            /\ is_visible' = [is_visible EXCEPT ![handle] = FALSE]
            /\ toggleRet' = "true"
       ELSE \* shown by _try_set_foreground_window or by SW_SHOW after it
            /\ osShown' = [osShown EXCEPT ![handle] = TRUE]
            /\ is_visible' = [is_visible EXCEPT ![handle] = TRUE]
            /\ toggleRet' = "true"

ToggleHotkey ==
    \E handle \in MgrHandles, bridgeOther \in BOOLEAN, fg \in FgOutcomes :
        toggle_window_visibility(handle, bridgeOther, fg)

\* _on_quit, step 3: every managed live window whose record says hidden is
\* shown
_on_quit ==
    /\ ~quitDone
    /\ quitDone' = TRUE
    /\ osShown' = [h \in MgrHandles |->
                     IF h \in managed /\ h \in alive /\ ~is_visible[h]
                     THEN TRUE ELSE osShown[h]]
    /\ UNCHANGED <<managed, is_visible, toggleRet, alive>>
    /\ ToggleFrame

\* the window of a captured handle is closed
ManagedWindowDies ==
    /\ ~quitDone
    /\ WindowDies

ToggleNext ==
    \/ capture_active_window
    \/ ToggleHotkey
    \/ _on_quit
    \/ ManagedWindowDies

ToggleSpec == Init /\ [][ToggleNext]_vars

\* C38: after a toggle of a managed live window that the bridge reports on
\* the current desktop, the record's is_visible equals the window's shown
\* state.
C38_FlagFollowsWindow ==
    [][\A handle \in MgrHandles : \A fg \in FgOutcomes :
          (/\ handle \in managed
           /\ handle \in alive
           /\ toggle_window_visibility(handle, FALSE, fg))
          => (is_visible'[handle] = osShown'[handle])]_vars

\* C39: once _on_quit has run its restore step, every live managed window is
\* shown.
C39_QuitRestoresHidden ==
    quitDone => (\A h \in managed : (h \in alive) => osShown[h])

====
